---- MODULE Spec2Model ----
(***************************************************************************)
(* A model of gomigrate: the file-name parser, the migration set resolver  *)
(* (loadMigrations), the transactional executor (execMigration) and the    *)
(* orchestrator (Migrate), together with the database and the file source  *)
(* they act on.  Strings the code takes apart are sequences of one-letter  *)
(* strings, so that parsing, joining and sorting are computed, not assumed. *)
(***************************************************************************)
EXTENDS Integers, Sequences, FiniteSets, TLC

(***************************************************************************)
(* Bounds of the model                                                     *)
(***************************************************************************)
\* the largest number of entries in a directory listing
MaxFiles == 3
\* how many times Migrate is invoked, one call after the other
MaxRuns == 2
\* the stored versions 1..k the tracking table may hold before the first call
MaxStored == 3
\* the number of statements in one migration body
BodyStmts == 2
MaxVersion == 11
MaxWords == 3
MaxOpts == 3

(***************************************************************************)
(* Strings                                                                 *)
(***************************************************************************)
Str_sql == <<"s", "q", "l">>
Str_postgres == <<"p", "o", "s", "t", "g", "r", "e", "s">>
Str_sqlite == <<"s", "q", "l", "i", "t", "e">>
Str_migrations == <<"m", "i", "g", "r", "a", "t", "i", "o", "n", "s">>
Str_gomigrate == <<"g", "o", "m", "i", "g", "r", "a", "t", "e">>

defaultDirectory == Str_migrations
defaultTableName == Str_gomigrate
migrationFileExt == <<".">> \o Str_sql
migrationSeparator == "_"
migrationDriverSeparator == "."

Digits == <<"0", "1", "2", "3", "4", "5", "6", "7", "8", "9">>

IsDigit(c) == \E i \in 1..10 : Digits[i] = c

DigitVal(c) == (CHOOSE i \in 1..10 : Digits[i] = c) - 1

\* the byte value of a character, which orders file names in a listing
Ord(c) ==
    CASE c = " " -> 32
      [] c = "+" -> 43
      [] c = "-" -> 45
      [] c = "." -> 46
      [] c = "/" -> 47
      [] IsDigit(c) -> 48 + DigitVal(c)
      [] c = "_" -> 95
      [] OTHER ->
           LET abc == <<"a", "b", "c", "d", "e", "f", "g", "h", "i", "j", "k",
                        "l", "m", "n", "o", "p", "q", "r", "s", "t", "u", "v",
                        "w", "x", "y", "z">>
           IN  96 + (CHOOSE i \in 1..26 : abc[i] = c)

\* byte-wise order of two strings
StrLess(a, b) ==
    \E i \in 1..(Len(b)) :
        /\ \A j \in 1..(i - 1) : j <= Len(a) /\ a[j] = b[j]
        /\ \/ i > Len(a)
           \/ i <= Len(a) /\ Ord(a[i]) < Ord(b[i])

\* strings.HasSuffix
HasSuffix(s, suffix) ==
    /\ Len(s) >= Len(suffix)
    /\ SubSeq(s, Len(s) - Len(suffix) + 1, Len(s)) = suffix

\* strings.CutSuffix: the string without the suffix, and whether it was there
CutSuffix(s, suffix) ==
    IF HasSuffix(s, suffix)
    THEN [before |-> SubSeq(s, 1, Len(s) - Len(suffix)), found |-> TRUE]
    ELSE [before |-> s, found |-> FALSE]

\* strings.SplitN(s, sep, 2) for a one-letter separator: cut at the first one
SplitN2(s, sep) ==
    IF \E i \in 1..Len(s) : s[i] = sep
    THEN LET i == CHOOSE k \in 1..Len(s) :
                     s[k] = sep /\ \A j \in 1..(k - 1) : s[j] # sep
         IN  <<SubSeq(s, 1, i - 1), SubSeq(s, i + 1, Len(s))>>
    ELSE <<s>>

\* the same step with a slip: only the first occurrence is replaced
ReplaceFirst(s, old, new) ==
    [i \in 1..Len(s) |->
        IF s[i] = old /\ \A j \in 1..(i - 1) : s[j] # old THEN new ELSE s[i]]

\* strings.ReplaceAll for one-letter strings
ReplaceAll(s, old, new) == [i \in 1..Len(s) |-> IF s[i] = old THEN new ELSE s[i]]

RECURSIVE DecimalValue(_)
DecimalValue(s) ==
    IF s = <<>> THEN 0
    ELSE 10 * DecimalValue(SubSeq(s, 1, Len(s) - 1)) + DigitVal(s[Len(s)])

\* strconv.Atoi: an optional sign and then one or more decimal digits
Atoi(s) ==
    LET signed == s # <<>> /\ s[1] \in {"+", "-"}
        digits == IF signed THEN Tail(s) ELSE s
    IN  IF digits = <<>> \/ \E i \in 1..Len(digits) : ~IsDigit(digits[i])
        THEN [ok |-> FALSE, val |-> 0]
        ELSE [ok |-> TRUE,
              val |-> IF signed /\ s[1] = "-"
                      THEN 0 - DecimalValue(digits)
                      ELSE DecimalValue(digits)]

\* path.Join of a directory and a file name that holds no slash
PathJoin(dir, fileName) ==
    IF dir = <<>> THEN fileName ELSE dir \o <<"/">> \o fileName

(***************************************************************************)
(* Errors: the chain of messages, the outermost first; none when nil       *)
(***************************************************************************)
NoErr == <<>>

\* errors.New
NewError(msg) == <<msg>>

\* fmt.Errorf with %w
Errorf(msg, err) == <<msg>> \o err

\* errors.Unwrap of an error made by Errorf
Unwrap(err) == Tail(err)

ErrNoDatabase == NewError("no database provided")

ErrNoDriver == NewError("no driver provided")

(***************************************************************************)
(* parseMigrationFileName                                                  *)
(***************************************************************************)
NoMigration == [name |-> <<>>, version |-> 0, driver |-> <<>>, filePath |-> <<>>]

parseMigrationFileName(dir, fileName) ==
    LET cut == CutSuffix(fileName, migrationFileExt)
        dparts == SplitN2(cut.before, migrationDriverSeparator)
        driver == IF Len(dparts) > 1 THEN dparts[2] ELSE <<>>
        stem == IF Len(dparts) > 1 THEN dparts[1] ELSE cut.before
        parts == SplitN2(stem, migrationSeparator)
    IN  IF ~cut.found
        THEN [mig |-> NoMigration,
              err |-> NewError("invalid migration file extension")]
        ELSE IF Len(parts) # 2
        THEN [mig |-> NoMigration,
              err |-> NewError("invalid migration file name")]
        ELSE IF ~Atoi(parts[1]).ok
        THEN [mig |-> NoMigration,
              err |-> Errorf("failed to parse migration version",
                             NewError("strconv.Atoi: invalid syntax"))]
        ELSE [mig |-> [name |-> ReplaceAll(parts[2], "_", " "),
                       version |-> Atoi(parts[1]).val,
                       driver |-> driver,
                       filePath |-> PathJoin(dir, fileName)],
              err |-> NoErr]

(***************************************************************************)
(* loadMigrations                                                          *)
(***************************************************************************)
\* embed.FS.ReadDir: the listing of the one directory the file source holds
ReadDir(f, dir) ==
    IF dir = f.dir
    THEN [entries |-> f.entries, err |-> NoErr]
    ELSE [entries |-> <<>>, err |-> NewError("file does not exist")]

\* the position of the first loaded migration with this version, 0 if none
IndexOfVersion(migs, version) ==
    IF \E i \in 1..Len(migs) : migs[i].version = version
    THEN CHOOSE i \in 1..Len(migs) :
             /\ migs[i].version = version
             /\ \A j \in 1..(i - 1) : migs[j].version # version
    ELSE 0

\* the same step with a slip: every kept migration is appended, none compared
AddMigrationNoDedup(migs, mig, driver) ==
    [migs |-> Append(migs, mig), err |-> NoErr]

\* the same step with a slip: the universal migration is never replaced
AddMigrationKeepFirst(migs, mig, driver) ==
    LET i == IndexOfVersion(migs, mig.version)
    IN  IF i = 0
        THEN [migs |-> Append(migs, mig), err |-> NoErr]
        ELSE IF migs[i].driver = mig.driver
        THEN [migs |-> <<>>,
              err |-> NewError("duplicate migration version and driver")]
        ELSE [migs |-> migs, err |-> NoErr]

\* one kept migration meets the ones loaded so far: a duplicate is an error,
\* a driver-specific one replaces the one in its version's place, else append
AddMigration(migs, mig, driver) ==
    LET i == IndexOfVersion(migs, mig.version)
    IN  IF i = 0
        THEN [migs |-> Append(migs, mig), err |-> NoErr]
        ELSE IF migs[i].driver = mig.driver
        THEN [migs |-> <<>>,
              err |-> NewError("duplicate migration version and driver")]
        ELSE IF mig.driver = driver
        THEN [migs |-> [migs EXCEPT ![i] = mig], err |-> NoErr]
        ELSE [migs |-> migs, err |-> NoErr]

\* insert one migration into a list sorted by version, after its equals
RECURSIVE InsertByVersion(_, _)
InsertByVersion(sorted, m) ==
    IF sorted = <<>> THEN <<m>>
    ELSE IF sorted[Len(sorted)].version - m.version > 0
    THEN Append(InsertByVersion(SubSeq(sorted, 1, Len(sorted) - 1), m),
                sorted[Len(sorted)])
    ELSE Append(sorted, m)

\* the same step with a slip: the list is left in the order of the listing
SortByVersionSkipped(migs) == migs

\* slices.SortFunc by m1.version - m2.version (an insertion sort at this size)
RECURSIVE SortByVersion(_)
SortByVersion(migs) ==
    IF migs = <<>> THEN <<>>
    ELSE InsertByVersion(SortByVersion(SubSeq(migs, 1, Len(migs) - 1)),
                         migs[Len(migs)])

\* the same loop with a slip: a file without the extension is parsed, not
\* skipped
RECURSIVE LoadLoopNoExtensionSkip(_, _, _, _, _)
LoadLoopNoExtensionSkip(entries, i, migs, dir, driver) ==
    IF i > Len(entries)
    THEN [migs |-> SortByVersion(migs), err |-> NoErr]
    ELSE IF entries[i].isDir
    THEN LoadLoopNoExtensionSkip(entries, i + 1, migs, dir, driver)
    ELSE LET p == parseMigrationFileName(dir, entries[i].name)
         IN  IF p.err # NoErr
             THEN [migs |-> <<>>,
                   err |-> Errorf("failed to parse migration file name", p.err)]
             ELSE IF p.mig.driver # <<>> /\ p.mig.driver # driver
             THEN LoadLoopNoExtensionSkip(entries, i + 1, migs, dir, driver)
             ELSE LET a == AddMigration(migs, p.mig, driver)
                  IN  IF a.err # NoErr
                      THEN a
                      ELSE LoadLoopNoExtensionSkip(entries, i + 1, a.migs, dir,
                                                   driver)

\* the loop over the entries from entry i on, with the migrations kept so far
RECURSIVE LoadLoop(_, _, _, _, _)
LoadLoop(entries, i, migs, dir, driver) ==
    IF i > Len(entries)
    THEN [migs |-> SortByVersion(migs), err |-> NoErr]
    ELSE IF entries[i].isDir \/ ~HasSuffix(entries[i].name, migrationFileExt)
    THEN LoadLoop(entries, i + 1, migs, dir, driver)
    ELSE LET p == parseMigrationFileName(dir, entries[i].name)
         IN  IF p.err # NoErr
             THEN [migs |-> <<>>,
                   err |-> Errorf("failed to parse migration file name", p.err)]
             ELSE IF p.mig.driver # <<>> /\ p.mig.driver # driver
             THEN LoadLoop(entries, i + 1, migs, dir, driver)
             ELSE LET a == AddMigration(migs, p.mig, driver)
                  IN  IF a.err # NoErr
                      THEN a
                      ELSE LoadLoop(entries, i + 1, a.migs, dir, driver)

loadMigrations(f, dir, driver) ==
    LET rd == ReadDir(f, dir)
    IN  IF rd.err # NoErr
        THEN [migs |-> <<>>,
              err |-> Errorf("failed to read migrations directory", rd.err)]
        ELSE LoadLoop(rd.entries, 1, <<>>, dir, driver)

(***************************************************************************)
(* The file names the model draws directory listings from                  *)
(***************************************************************************)
Ext == migrationFileExt

F_0_z == <<"0", "_", "z">> \o Ext
F_1_a == <<"1", "_", "a">> \o Ext
F_1_a_pg == <<"1", "_", "a", ".">> \o Str_postgres \o Ext
F_1_b_pg == <<"1", "_", "b", ".">> \o Str_postgres \o Ext
F_1_c == <<"1", "_", "c">> \o Ext
F_2_b == <<"2", "_", "b">> \o Ext
F_2_b_lite == <<"2", "_", "b", ".">> \o Str_sqlite \o Ext
F_3_c_d == <<"3", "_", "c", "_", "d">> \o Ext
F_x == <<"x">> \o Ext
F_v_x == <<"v", "_", "x">> \o Ext
F_old == <<"o", "l", "d">>
F_10_k == <<"1", "0", "_", "k">> \o Ext
F_5_b_sqll == <<"5", "_", "b", ".", "s", "q", "l", "l">>

File(name) == [name |-> name, isDir |-> FALSE]

Dir(name) == [name |-> name, isDir |-> TRUE]

\* the entries a listing of the resolver's own checks is drawn from
LoadPool ==
    {File(F_0_z), File(F_1_a), File(F_1_a_pg), File(F_1_b_pg), File(F_1_c),
     File(F_2_b), File(F_2_b_lite), File(F_3_c_d), File(F_x), File(F_v_x),
     Dir(F_old), File(F_10_k), File(F_5_b_sqll)}

\* the entries a listing of a Migrate run is drawn from
RunPool ==
    {File(F_0_z), File(F_1_a), File(F_1_b_pg), File(F_1_c), File(F_2_b),
     File(F_2_b_lite), File(F_3_c_d), File(F_x)}

DriverNames == {Str_postgres, Str_sqlite}

\* a directory listing is sorted by file name
RECURSIVE SortedListing(_)
SortedListing(S) ==
    IF S = {} THEN <<>>
    ELSE LET first == CHOOSE e \in S :
                          \A o \in S \ {e} : StrLess(e.name, o.name)
         IN  <<first>> \o SortedListing(S \ {first})

Listings(pool) ==
    {SortedListing(S) : S \in {T \in SUBSET pool : Cardinality(T) <= MaxFiles}}

(***************************************************************************)
(* Configuration                                                           *)
(***************************************************************************)
Str_db == <<"d", "b">>
Str_ver == <<"v", "e", "r">>

defaultConfig ==
    [Directory |-> defaultDirectory, TableName |-> defaultTableName,
     Logger |-> "slog.Default"]

WithDirectory(dir) == [field |-> "Directory", value |-> dir, logger |-> ""]

WithTableName(name) == [field |-> "TableName", value |-> name, logger |-> ""]

WithLogger(l) == [field |-> "Logger", value |-> <<>>, logger |-> l]

\* one option applied to a configuration
ApplyOption(c, opt) ==
    CASE opt.field = "Directory" -> [c EXCEPT !.Directory = opt.value]
      [] opt.field = "TableName" -> [c EXCEPT !.TableName = opt.value]
      [] OTHER -> [c EXCEPT !.Logger = opt.logger]

\* the same loop with a slip: the options are applied last to first
RECURSIVE ApplyOptionsReversed(_, _)
ApplyOptionsReversed(c, os) ==
    IF os = <<>> THEN c
    ELSE ApplyOption(ApplyOptionsReversed(c, Tail(os)), Head(os))

\* config.apply: the options applied in the order given
RECURSIVE ApplyOptions(_, _)
ApplyOptions(c, os) ==
    IF os = <<>> THEN c ELSE ApplyOptions(ApplyOption(c, Head(os)), Tail(os))

\* the option lists a Migrate run is called with
RunOpts ==
    {<<>>,
     <<WithDirectory(Str_db)>>,
     <<WithDirectory(Str_db), WithTableName(Str_ver), WithLogger("custom"),
       WithDirectory(Str_migrations)>>}

(***************************************************************************)
(* State                                                                   *)
(***************************************************************************)
VARIABLES
    fs,              \* the file source: its directory and the sorted listing
    driverName,      \* what the driver's Name() returns
    opts,            \* the options every call of Migrate is given
    schema,          \* durable: the migration bodies committed, in order
    table,           \* durable: the version records committed, in order
    tableExists,     \* durable: whether the tracking table was created
    args,            \* per run: whether the call was given a nil db or driver
    pc,              \* per run: where Migrate stands
    cancelled,       \* per run: whether the caller's context is cancelled
    cfg,             \* per run: the configuration in force
    migrations,      \* per run: the resolved migrations
    currentVersion,  \* per run: the stored version read at the start
    idx,             \* per run: the position of the loop over migrations
    tx,              \* per run: the transaction of the migration being applied
    err,             \* per run: what Migrate returned
    trace,           \* per run: the calls the run has issued so far
    start,           \* per run: the durable state when the run began
    call,            \* per run: the durable state when execMigration began
    cancelAt,        \* per run: the version whose transaction a cancel hit
    runNo,           \* per run: how many times Migrate was invoked
    prev,            \* per run: what the previous invocation returned
    res              \* the result of a function applied on its own

vars ==
    <<fs, driverName, opts, schema, table, tableExists, args, pc, cancelled,
      cfg, migrations, currentVersion, idx, tx, err, trace, start, call,
      cancelAt, runNo, prev, res>>

fsVars == <<fs, driverName, opts>>

dbVars == <<schema, table, tableExists>>

Runs == {1}

NoTx == [open |-> FALSE, stmts |-> <<>>, vers |-> <<>>]

NilResult ==
    [kind |-> "nil", Name |-> <<>>, FileName |-> <<>>, Version |-> 0,
     Err |-> NoErr]

\* wrapMigrateErr with a slip: the two strings change places
wrapMigrateErrSwapped(name, fileName, version, e) ==
    [kind |-> "MigrateError", Name |-> fileName, FileName |-> name,
     Version |-> version, Err |-> e]

\* an error that is no MigrateError
PlainError(e) ==
    [kind |-> "error", Name |-> <<>>, FileName |-> <<>>, Version |-> 0,
     Err |-> e]

wrapMigrateErr(name, fileName, version, e) ==
    [kind |-> "MigrateError", Name |-> name, FileName |-> fileName,
     Version |-> version, Err |-> e]

NoResult ==
    [kind |-> "none", Version |-> 0, current |-> 0, tableLen |-> 0,
     schemaLen |-> 0]

Snapshot == [schema |-> schema, table |-> table]

Event(op, v, ok) == [op |-> op, v |-> v, ok |-> ok]

NoArgs == [dbNil |-> FALSE, driverNil |-> FALSE]

\* no transaction was open when the context was cancelled, or no cancel yet
NoCancel == [hit |-> FALSE, version |-> 0]

\* no function was applied on its own yet
NoCall == [called |-> FALSE, dir |-> <<>>, migs |-> <<>>, err |-> NoErr]

\* the version records 1..k
RECURSIVE Stored(_)
Stored(k) == IF k = 0 THEN <<>> ELSE Append(Stored(k - 1), k)

\* the bodies of the versions 1..k, each committed whole
RECURSIVE StoredSchema(_)
StoredSchema(k) ==
    IF k = 0 THEN <<>>
    ELSE Append(StoredSchema(k - 1), [version |-> k, stmts |-> BodyStmts])

InitRun ==
    /\ args = [r \in Runs |-> NoArgs]
    /\ pc = [r \in Runs |-> "idle"]
    /\ cancelled = [r \in Runs |-> FALSE]
    /\ cfg = [r \in Runs |-> defaultConfig]
    /\ migrations = [r \in Runs |-> <<>>]
    /\ currentVersion = [r \in Runs |-> 0]
    /\ idx = [r \in Runs |-> 0]
    /\ tx = [r \in Runs |-> NoTx]
    /\ err = [r \in Runs |-> NilResult]
    /\ trace = [r \in Runs |-> <<>>]
    /\ start = [r \in Runs |-> Snapshot]
    /\ call = [r \in Runs |-> Snapshot]
    /\ cancelAt = [r \in Runs |-> NoCancel]
    /\ runNo = [r \in Runs |-> 0]
    /\ prev = [r \in Runs |-> NoResult]
    /\ res = NoCall

\* a database some earlier runs left: versions 1..k applied, or nothing at all
InitDb ==
    \E k \in 0..MaxStored :
        /\ schema = StoredSchema(k)
        /\ table = Stored(k)
        /\ tableExists \in (IF k = 0 THEN BOOLEAN ELSE {TRUE})

Init ==
    /\ fs \in {[dir |-> defaultDirectory, entries |-> l] : l \in Listings(RunPool)}
    /\ driverName = Str_postgres
    /\ opts \in RunOpts
    /\ InitDb
    /\ InitRun

(***************************************************************************)
(* The database and the driver                                             *)
(***************************************************************************)
\* the largest element of a non-empty sequence of integers
MaxOf(seq) == CHOOSE x \in {seq[i] : i \in 1..Len(seq)} :
                  \A i \in 1..Len(seq) : seq[i] <= x

\* GetVersion with a slip: the query is ordered the wrong way round
GetVersionLowest(tbl) ==
    IF tbl = <<>> THEN 0
    ELSE CHOOSE x \in {tbl[i] : i \in 1..Len(tbl)} :
             \A i \in 1..Len(tbl) : x <= tbl[i]

\* driver.GetVersion: the highest version recorded, zero when there is none
GetVersion(tbl) == IF tbl = <<>> THEN 0 ELSE MaxOf(tbl)

\* tx.ExecContext of a body of which k statements took effect
TxExec(t, version, k) ==
    IF k = 0 THEN t
    ELSE [t EXCEPT !.stmts = Append(@, [version |-> version, stmts |-> k])]

\* AddVersion with a slip: the record is written on the connection, outside
\* the transaction
AddVersionOutsideTx(t, version) == [tx |-> t, direct |-> <<version>>]

\* driver.AddVersion: the record is written inside the transaction given
AddVersion(t, version) ==
    [tx |-> [t EXCEPT !.vers = Append(@, version)], direct |-> <<>>]

\* tx.Commit: what the transaction holds becomes durable, all of it at once
Commit(t) == [schema |-> t.stmts, table |-> t.vers]

\* tx.Rollback: nothing the transaction holds becomes durable
Rollback(t) == [schema |-> <<>>, table |-> <<>>]

\* the failure path without its tx.Rollback: the transaction stays open
RollbackForgotten(t) == t

\* the transaction after tx.Rollback on a failure path: closed, emptied
RolledBack(t) == NoTx

\* the durable state after a transaction ended with effect d
Durable(d) ==
    /\ schema' = schema \o d.schema
    /\ table' = table \o d.table

\* what a database call fails with
DbErr(isCancelled) ==
    IF isCancelled THEN NewError("context canceled") ELSE NewError("db error")

(***************************************************************************)
(* Migrate: the decisions between its calls                                *)
(***************************************************************************)
\* the nil checks with a slip: the driver constructor is not checked
ValidateDbOnly(a) == IF a.dbNil THEN ErrNoDatabase ELSE NoErr

\* the nil checks at the head of Migrate
Validate(a) ==
    IF a.dbNil THEN ErrNoDatabase
    ELSE IF a.driverNil THEN ErrNoDriver
    ELSE NoErr

\* the checks after loadMigrations with a slip: an empty set goes on
AfterLoadNoEmptyCheck(l) ==
    IF l.err # NoErr
    THEN [ret |-> TRUE,
          result |-> PlainError(Errorf("failed to load migrations", l.err))]
    ELSE [ret |-> FALSE, result |-> NilResult]

\* what follows loadMigrations: its error, an empty set, or the set itself
AfterLoad(l) ==
    IF l.err # NoErr
    THEN [ret |-> TRUE,
          result |-> PlainError(Errorf("failed to load migrations", l.err))]
    ELSE IF Len(l.migs) = 0
    THEN [ret |-> TRUE, result |-> PlainError(NewError("no migrations found"))]
    ELSE [ret |-> FALSE, result |-> NilResult]

\* the comparison with a slip: a stored version ahead goes unnoticed
CompareNeverAhead(current, migs) ==
    IF current = migs[Len(migs)].version THEN "same" ELSE "behind"

\* the stored version against the last migration's
Compare(current, migs) ==
    LET last == migs[Len(migs)]
    IN  IF current = last.version THEN "same"
        ELSE IF current > last.version THEN "ahead"
        ELSE "behind"

\* the skip test with a slip: the stored version itself is not skipped
ShouldSkipStrict(m, current) == m.version < current

\* the loop skips a migration that was executed already
ShouldSkip(m, current) == m.version <= current

\* the first position from i on that the loop does not skip
NextPending(migs, i, current) ==
    IF \E j \in i..Len(migs) : ~ShouldSkip(migs[j], current)
    THEN CHOOSE j \in i..Len(migs) :
             /\ ~ShouldSkip(migs[j], current)
             /\ \A k \in i..(j - 1) : ShouldSkip(migs[k], current)
    ELSE Len(migs) + 1

\* the loop with a slip: a failed migration does not end the loop, and its
\* error is returned only where the loop ends
AfterExecContinue(migs, i, current, e) ==
    LET j == NextPending(migs, i + 1, current)
    IN  [ret |-> j > Len(migs), idx |-> IF j > Len(migs) THEN i ELSE j,
         result |-> IF e # NoErr
                    THEN wrapMigrateErr(migs[i].name, migs[i].filePath,
                                        migs[i].version, e)
                    ELSE NilResult]

\* the loop after execMigration returned e for the migration at i
AfterExec(migs, i, current, e) ==
    IF e # NoErr
    THEN [ret |-> TRUE, idx |-> i,
          result |-> wrapMigrateErr(migs[i].name, migs[i].filePath,
                                    migs[i].version, e)]
    ELSE LET j == NextPending(migs, i + 1, current)
         IN  [ret |-> j > Len(migs), idx |-> j, result |-> NilResult]

(***************************************************************************)
(* Migrate, one call at a time                                             *)
(***************************************************************************)
Set(f, r, v) == [f EXCEPT ![r] = v]

Log(r, op, v, ok) == trace' = Set(trace, r, Append(trace[r], Event(op, v, ok)))

Finish(r, result) ==
    /\ pc' = Set(pc, r, "done")
    /\ err' = Set(err, r, result)

\* the migration the loop stands at
Cur(r) == migrations[r][idx[r]]

\* Migrate is called: the nil checks, the configuration, the driver
Invoke(r) ==
    /\ pc[r] \in {"idle", "done"}
    /\ runNo[r] < MaxRuns
    /\ \E a \in [dbNil : BOOLEAN, driverNil : BOOLEAN] :
           /\ args' = Set(args, r, a)
           /\ IF Validate(a) # NoErr
              THEN /\ Finish(r, PlainError(Validate(a)))
                   /\ trace' = Set(trace, r, <<>>)
                   /\ cfg' = Set(cfg, r, defaultConfig)
              ELSE /\ pc' = Set(pc, r, "load")
                   /\ err' = Set(err, r, NilResult)
                   /\ trace' = Set(trace, r, <<Event("newDriver", 0, TRUE)>>)
                   /\ cfg' = Set(cfg, r, ApplyOptions(defaultConfig, opts))
    /\ runNo' = Set(runNo, r, runNo[r] + 1)
    /\ prev' = Set(prev, r,
                   IF pc[r] = "idle" THEN NoResult
                   ELSE [kind |-> err[r].kind, Version |-> err[r].Version,
                         current |-> currentVersion[r],
                         tableLen |-> Len(start[r].table),
                         schemaLen |-> Len(start[r].schema)])
    /\ start' = Set(start, r, Snapshot)
    /\ call' = Set(call, r, Snapshot)
    /\ cancelled' = Set(cancelled, r, FALSE)
    /\ cancelAt' = Set(cancelAt, r, NoCancel)
    /\ migrations' = Set(migrations, r, <<>>)
    /\ currentVersion' = Set(currentVersion, r, 0)
    /\ idx' = Set(idx, r, 0)
    /\ tx' = Set(tx, r, NoTx)
    /\ UNCHANGED <<fsVars, dbVars, res>>

\* loadMigrations and the checks of what it returned
LoadStep(r) ==
    /\ pc[r] = "load"
    /\ LET l == loadMigrations(fs, cfg[r].Directory, driverName)
           a == AfterLoad(l)
       IN  /\ Log(r, "ReadDir", 0, l.err = NoErr)
           /\ IF a.ret
              THEN /\ Finish(r, a.result)
                   /\ UNCHANGED migrations
              ELSE /\ pc' = Set(pc, r, "createTable")
                   /\ migrations' = Set(migrations, r, l.migs)
                   /\ UNCHANGED err
    /\ UNCHANGED <<fsVars, dbVars, args, cancelled, cfg, currentVersion, idx,
                   tx, start, call, cancelAt, runNo, prev, res>>

\* driver.CreateVersionTable
CreateTableStep(r) ==
    /\ pc[r] = "createTable"
    /\ \E ok \in BOOLEAN :
           /\ ok => ~cancelled[r]
           /\ Log(r, "CreateVersionTable", 0, ok)
           /\ IF ok
              THEN /\ tableExists' = TRUE
                   /\ pc' = Set(pc, r, "getVersion")
                   /\ UNCHANGED err
              ELSE /\ Finish(r, PlainError(Errorf("failed to create version table",
                                                  DbErr(cancelled[r]))))
                   /\ UNCHANGED tableExists
    /\ UNCHANGED <<fsVars, schema, table, args, cancelled, cfg, migrations,
                   currentVersion, idx, tx, start, call, cancelAt, runNo, prev,
                   res>>

\* driver.GetVersion, the comparison with the last migration, and the loop's
\* skipping up to the first pending migration
GetVersionStep(r) ==
    /\ pc[r] = "getVersion"
    /\ \E ok \in BOOLEAN :
           /\ ok => ~cancelled[r]
           /\ Log(r, "GetVersion", 0, ok)
           /\ IF ~ok
              THEN /\ Finish(r, PlainError(Errorf("failed to get current version",
                                                  DbErr(cancelled[r]))))
                   /\ UNCHANGED <<currentVersion, idx>>
              ELSE LET cur == GetVersion(table)
                       c == Compare(cur, migrations[r])
                       j == NextPending(migrations[r], 1, cur)
                   IN  /\ currentVersion' = Set(currentVersion, r, cur)
                       /\ IF c = "same"
                          THEN Finish(r, NilResult) /\ UNCHANGED idx
                          ELSE IF c = "ahead"
                          THEN /\ Finish(r, PlainError(NewError(
                                      "schema version is ahead of migrations")))
                               /\ UNCHANGED idx
                          ELSE IF j > Len(migrations[r])
                          THEN Finish(r, NilResult) /\ UNCHANGED idx
                          ELSE /\ pc' = Set(pc, r, "readFile")
                               /\ idx' = Set(idx, r, j)
                               /\ UNCHANGED err
    /\ UNCHANGED <<fsVars, dbVars, args, cancelled, cfg, migrations, tx, start,
                   call, cancelAt, runNo, prev, res>>

\* what Migrate does once execMigration returned e
Returned(r, e) ==
    LET a == AfterExec(migrations[r], idx[r], currentVersion[r], e)
    IN  /\ idx' = Set(idx, r, a.idx)
        /\ IF a.ret
           THEN Finish(r, a.result)
           ELSE pc' = Set(pc, r, "readFile") /\ UNCHANGED err

\* execMigration: fs.ReadFile
ReadFileStep(r) ==
    /\ pc[r] = "readFile"
    /\ call' = Set(call, r, Snapshot)
    /\ \E ok \in BOOLEAN :
           /\ Log(r, "ReadFile", Cur(r).version, ok)
           /\ IF ok
              THEN pc' = Set(pc, r, "beginTx") /\ UNCHANGED <<err, idx>>
              ELSE Returned(r, Errorf("failed to read migration file",
                                      NewError("fs error")))
    /\ UNCHANGED <<fsVars, dbVars, args, cancelled, cfg, migrations,
                   currentVersion, tx, start, cancelAt, runNo, prev, res>>

\* execMigration: db.BeginTx
BeginTxStep(r) ==
    /\ pc[r] = "beginTx"
    /\ \E ok \in BOOLEAN :
           /\ ok => ~cancelled[r]
           /\ Log(r, "BeginTx", Cur(r).version, ok)
           /\ IF ok
              THEN /\ tx' = Set(tx, r, [NoTx EXCEPT !.open = TRUE])
                   /\ pc' = Set(pc, r, "exec")
                   /\ UNCHANGED <<err, idx>>
              ELSE /\ Returned(r, Errorf("failed to start transaction",
                                         DbErr(cancelled[r])))
                   /\ UNCHANGED tx
    /\ UNCHANGED <<fsVars, dbVars, args, cancelled, cfg, migrations,
                   currentVersion, start, call, cancelAt, runNo, prev, res>>

\* execMigration: tx.ExecContext of the body, and the rollback when it fails
ExecStep(r) ==
    /\ pc[r] = "exec"
    /\ \E k \in 0..BodyStmts :
           /\ k > 0 => tx[r].open
           /\ Log(r, "Exec", Cur(r).version, k = BodyStmts)
           /\ IF k = BodyStmts
              THEN /\ tx' = Set(tx, r, TxExec(tx[r], Cur(r).version, k))
                   /\ pc' = Set(pc, r, "addVersion")
                   /\ UNCHANGED <<err, idx>>
                   /\ UNCHANGED <<schema, table>>
              ELSE /\ Durable(Rollback(TxExec(tx[r], Cur(r).version, k)))
                   /\ tx' = Set(tx, r,
                              RolledBack(TxExec(tx[r], Cur(r).version, k)))
                   /\ Returned(r, Errorf("failed to execute migration",
                                         DbErr(cancelled[r])))
    /\ UNCHANGED <<fsVars, tableExists, args, cancelled, cfg, migrations,
                   currentVersion, start, call, cancelAt, runNo, prev, res>>

\* execMigration: driver.AddVersion, and the rollback when it fails
AddVersionStep(r) ==
    /\ pc[r] = "addVersion"
    /\ \E ok \in BOOLEAN :
           /\ ok => tx[r].open
           /\ Log(r, "AddVersion", Cur(r).version, ok)
           /\ IF ok
              THEN LET a == AddVersion(tx[r], Cur(r).version)
                   IN  /\ tx' = Set(tx, r, a.tx)
                       /\ table' = table \o a.direct
                       /\ pc' = Set(pc, r, "commit")
                       /\ UNCHANGED <<schema, err, idx>>
              ELSE /\ Durable(Rollback(tx[r]))
                   /\ tx' = Set(tx, r, RolledBack(tx[r]))
                   /\ Returned(r, Errorf("failed to set version",
                                         DbErr(cancelled[r])))
    /\ UNCHANGED <<fsVars, tableExists, args, cancelled, cfg,
                   migrations, currentVersion, start, call, cancelAt, runNo,
                   prev, res>>

\* execMigration: tx.Commit, whose error is returned as it is
CommitStep(r) ==
    /\ pc[r] = "commit"
    /\ \E ok \in BOOLEAN :
           /\ ok => tx[r].open
           /\ Log(r, "Commit", Cur(r).version, ok)
           /\ tx' = Set(tx, r, NoTx)
           /\ IF ok
              THEN /\ Durable(Commit(tx[r]))
                   /\ Returned(r, NoErr)
              ELSE /\ Durable(Rollback(tx[r]))
                   /\ Returned(r, DbErr(cancelled[r]))
    /\ UNCHANGED <<fsVars, tableExists, args, cancelled, cfg, migrations,
                   currentVersion, start, call, cancelAt, runNo, prev, res>>

\* the caller's context is cancelled: the sql package rolls back the
\* transaction that is open, and every later database call fails
Cancel(r) ==
    /\ pc[r] \notin {"idle", "done"}
    /\ ~cancelled[r]
    /\ cancelled' = Set(cancelled, r, TRUE)
    /\ cancelAt' = Set(cancelAt, r,
                       IF tx[r].open
                       THEN [hit |-> TRUE, version |-> Cur(r).version]
                       ELSE NoCancel)
    /\ Durable(Rollback(tx[r]))
    /\ tx' = Set(tx, r, NoTx)
    /\ UNCHANGED <<fsVars, tableExists, args, pc, cfg, migrations,
                   currentVersion, idx, err, trace, start, call, runNo, prev,
                   res>>

Next ==
    \E r \in Runs :
        \/ Invoke(r)
        \/ LoadStep(r)
        \/ CreateTableStep(r)
        \/ GetVersionStep(r)
        \/ ReadFileStep(r)
        \/ BeginTxStep(r)
        \/ ExecStep(r)
        \/ AddVersionStep(r)
        \/ CommitStep(r)
        \/ Cancel(r)

Spec == Init /\ [][Next]_vars

(***************************************************************************)
(* loadMigrations on its own, on every listing drawn from LoadPool         *)
(***************************************************************************)
InitLoad ==
    /\ fs \in {[dir |-> defaultDirectory, entries |-> l] : l \in Listings(LoadPool)}
    /\ driverName \in DriverNames
    /\ opts = <<>>
    /\ schema = <<>>
    /\ table = <<>>
    /\ tableExists = FALSE
    /\ InitRun

CallLoadMigrations ==
    /\ ~res.called
    /\ \E dir \in {defaultDirectory, Str_db} :
           LET l == loadMigrations(fs, dir, driverName)
           IN  res' = [called |-> TRUE, dir |-> dir, migs |-> l.migs,
                       err |-> l.err]
    /\ UNCHANGED <<fsVars, dbVars, args, pc, cancelled, cfg, migrations,
                   currentVersion, idx, tx, err, trace, start, call, cancelAt,
                   runNo, prev>>

NextLoad == CallLoadMigrations

SpecLoad == InitLoad /\ [][NextLoad]_vars

(***************************************************************************)
(* Claims about loadMigrations                                             *)
(***************************************************************************)
\* the listing holds exactly two files, both parsed, of one version, the
\* one at position u universal and the one at position d of the active driver
OverridePair(u, d) ==
    /\ Len(fs.entries) = 2
    /\ {u, d} = {1, 2}
    /\ \A i \in {1, 2} :
           /\ ~fs.entries[i].isDir
           /\ parseMigrationFileName(res.dir, fs.entries[i].name).err = NoErr
    /\ LET mu == parseMigrationFileName(res.dir, fs.entries[u].name).mig
           md == parseMigrationFileName(res.dir, fs.entries[d].name).mig
       IN  /\ mu.version = md.version
           /\ mu.driver = <<>>
           /\ md.driver = driverName

\* C10: when the directory holds exactly two files of one version, one
\* universal and one tagged with the active driver, loadMigrations returns
\* the driver-specific migration for that version and not the universal one,
\* whichever of the two the listing has first.
C10_DriverSpecificOverride ==
    \A u \in {1, 2}, d \in {1, 2} :
        (res.called /\ res.dir = fs.dir /\ OverridePair(u, d)) =>
            /\ res.err = NoErr
            /\ res.migs =
                   <<parseMigrationFileName(res.dir, fs.entries[d].name).mig>>
            /\ res.migs[1].driver = driverName

\* C10 witness: the universal file is listed first and was replaced
C10_Witness ==
    /\ res.called
    /\ res.dir = fs.dir
    /\ OverridePair(1, 2)
    /\ Len(res.migs) = 1
    /\ res.migs[1].driver = Str_postgres

\* the other order is reached too: the driver-specific file is listed first
C10_WitnessSpecificFirst ==
    /\ res.called
    /\ res.dir = fs.dir
    /\ OverridePair(2, 1)
    /\ Len(res.migs) = 1
    /\ res.migs[1].driver = Str_postgres

(***************************************************************************)
(* Claims about Migrate and execMigration                                  *)
(***************************************************************************)
\* the calls of one kind a run has issued, in order
Events(r, op) == SelectSeq(trace[r], LAMBDA e : e.op = op)

\* the versions those calls were about, in order
VersionsOf(events) == [i \in 1..Len(events) |-> events[i].v]

\* the calls execMigration makes
MigrationOps == {"ReadFile", "BeginTx", "Exec", "AddVersion", "Commit"}

\* the calls that reach the database
DatabaseOps ==
    {"CreateVersionTable", "GetVersion", "BeginTx", "Exec", "AddVersion",
     "Commit"}

Issued(r, ops) == \E i \in 1..Len(trace[r]) : trace[r][i].op \in ops

LastEvent(r) == trace[r][Len(trace[r])]

\* the resolved migrations with a version above v, in the resolved order
Above(migs, v) == SelectSeq(migs, LAMBDA m : m.version > v)

VersionsIn(migs) == [i \in 1..Len(migs) |-> migs[i].version]

\* the body of a migration, committed whole
Body(v) == [version |-> v, stmts |-> BodyStmts]

BodiesOf(versions) == [i \in 1..Len(versions) |-> Body(versions[i])]

StrictlyAscending(seq) == \A i \in 1..(Len(seq) - 1) : seq[i] < seq[i + 1]

Succeeded(r) == pc[r] = "done" /\ runNo[r] > 0 /\ err[r].kind = "nil"

\* C1: a Migrate run that returns success has executed exactly the resolved
\* migrations whose version is above the stored version read at the start of
\* the run, each once and in strictly ascending order of version, and none
\* whose version is at most the stored version.
C1_SuccessRunsExactlyPending ==
    \A r \in Runs :
        Succeeded(r) =>
            LET done == VersionsOf(Events(r, "Exec"))
                pending == VersionsIn(Above(migrations[r], currentVersion[r]))
            IN  /\ done = pending
                /\ StrictlyAscending(done)
                /\ \A i \in 1..Len(done) : done[i] > currentVersion[r]
                /\ \A i \in 1..Len(trace[r]) :
                       trace[r][i].op \in MigrationOps => trace[r][i].ok
                /\ VersionsOf(Events(r, "Commit")) = pending
                /\ schema = start[r].schema \o BodiesOf(pending)

\* C1 witness: a successful run that skipped a stored version and executed
\* two pending migrations
C1_Witness ==
    \E r \in Runs :
        /\ Succeeded(r)
        /\ Len(Events(r, "Exec")) >= 2
        /\ currentVersion[r] >= 1
        /\ \E i \in 1..Len(migrations[r]) :
               migrations[r][i].version <= currentVersion[r]

\* execMigration has just returned in run r
ExecReturned(r) ==
    /\ trace[r] # <<>>
    /\ LastEvent(r).op \in MigrationOps
    /\ LastEvent(r).op = "Commit" \/ ~LastEvent(r).ok

\* C2: applying one migration is atomic: after execMigration returns, either
\* the commit succeeded and the migration's whole body and its version record
\* are durable, or (the read, the begin, the body, AddVersion or the commit
\* failed) nothing of the migration is: no statement and no version record.
C2_ExecMigrationAtomic ==
    \A r \in Runs :
        ExecReturned(r) =>
            IF LastEvent(r).op = "Commit" /\ LastEvent(r).ok
            THEN /\ schema = call[r].schema \o <<Body(LastEvent(r).v)>>
                 /\ table = call[r].table \o <<LastEvent(r).v>>
            ELSE /\ schema = call[r].schema
                 /\ table = call[r].table

\* C2 witness: the commit failed after the body and the version record were
\* written inside the transaction
C2_Witness ==
    \E r \in Runs :
        /\ ExecReturned(r)
        /\ LastEvent(r).op = "Commit"
        /\ ~LastEvent(r).ok
        /\ Len(Events(r, "AddVersion")) >= 1
        /\ table = call[r].table

\* the run changed nothing durable and never began a transaction
NoTransactionNoWrite(r) ==
    /\ ~Issued(r, {"BeginTx", "Exec", "AddVersion", "Commit"})
    /\ schema = start[r].schema
    /\ table = start[r].table

\* run r follows an invocation that returned success
AfterSuccess(r) == runNo[r] >= 2 /\ prev[r].kind = "nil"

\* C3 as stated: a second invocation after a successful one, on the same
\* database and files, returns success, begins no transaction, executes no
\* migration body and writes no version record.
C3_SecondRunSucceedsAsNoOp ==
    \A r \in Runs :
        (AfterSuccess(r) /\ Validate(args[r]) = NoErr) =>
            /\ NoTransactionNoWrite(r)
            /\ pc[r] = "done" => err[r].kind = "nil"

\* C3 amended: the second invocation begins no transaction, executes no
\* migration body and writes no version record, and it returns success unless
\* CreateVersionTable or GetVersion fails, whose error it then returns.
C3_SecondRunIsNoOp ==
    \A r \in Runs :
        (AfterSuccess(r) /\ Validate(args[r]) = NoErr) =>
            /\ NoTransactionNoWrite(r)
            /\ pc[r] \in {"load", "createTable", "getVersion", "done"}
            /\ pc[r] = "done" =>
                   IF \A i \in 1..Len(trace[r]) : trace[r][i].ok
                   THEN /\ err[r].kind = "nil"
                        /\ Issued(r, {"GetVersion"})
                   ELSE /\ err[r].kind = "error"
                        /\ LastEvent(r).op \in {"CreateVersionTable", "GetVersion"}
                        /\ ~LastEvent(r).ok

\* C3 witness: the first run applied a migration, the second returned success
C3_Witness ==
    \E r \in Runs :
        /\ AfterSuccess(r)
        /\ Succeeded(r)
        /\ Issued(r, {"GetVersion"})
        /\ Len(table) > prev[r].tableLen

\* GetVersion returned, and what it returned is above the last migration
Ahead(r) ==
    /\ Issued(r, {"GetVersion"})
    /\ Events(r, "GetVersion")[1].ok
    /\ currentVersion[r] > migrations[r][Len(migrations[r])].version

\* C4: if the stored version GetVersion returns is above the highest version
\* in the resolved set, Migrate returns an error and the database is as it
\* was: no transaction begun, no migration executed, no version written.
C4_NoDowngrade ==
    \A r \in Runs :
        Ahead(r) =>
            /\ pc[r] = "done"
            /\ err[r] = PlainError(NewError("schema version is ahead of migrations"))
            /\ NoTransactionNoWrite(r)

\* C4 witness: a run that found the stored version ahead
C4_Witness ==
    \E r \in Runs :
        /\ Ahead(r)
        /\ pc[r] = "done"
        /\ err[r].kind = "error"
        /\ Len(migrations[r]) >= 2

\* a call of execMigration failed in run r
Failed(r) ==
    \E i \in 1..Len(trace[r]) :
        trace[r][i].op \in MigrationOps /\ ~trace[r][i].ok

\* the pending versions of run r below version k
PendingBelow(r, k) ==
    SelectSeq(VersionsIn(Above(migrations[r], currentVersion[r])),
              LAMBDA v : v < k)

\* C5: when applying a pending migration fails, Migrate returns an error at
\* once, attempts no migration of a higher version in that run, and what the
\* migrations committed earlier in the run left (bodies and version records)
\* stays exactly as committed.
C5_FailFastKeepsCommits ==
    \A r \in Runs :
        Failed(r) =>
            LET e == LastEvent(r)
                earlier == PendingBelow(r, e.v)
            IN  /\ pc[r] = "done"
                /\ err[r].kind = "MigrateError"
                /\ e.op \in MigrationOps /\ ~e.ok
                /\ \A i \in 1..(Len(trace[r]) - 1) : trace[r][i].ok
                /\ \A i \in 1..Len(trace[r]) :
                       trace[r][i].op \in MigrationOps => trace[r][i].v <= e.v
                /\ VersionsOf(Events(r, "Commit")) \in {earlier, Append(earlier, e.v)}
                /\ schema = start[r].schema \o BodiesOf(earlier)
                /\ table = start[r].table \o earlier

\* C5 witness: the second pending migration failed after the first committed
C5_Witness ==
    \E r \in Runs :
        /\ Failed(r)
        /\ pc[r] = "done"
        /\ Len(table) > Len(start[r].table)
        /\ \E i \in 1..Len(migrations[r]) :
               migrations[r][i].version > LastEvent(r).v

\* run r follows an invocation that failed at a migration
AfterFailure(r) ==
    runNo[r] >= 2 /\ prev[r].kind = "MigrateError" /\ Validate(args[r]) = NoErr

\* C6: after a run that failed at version k, a re-invoked run with the same
\* resolved set executes no migration below k again, executes k first, and,
\* when nothing fails, ends with every pending migration committed exactly
\* once over the two runs.
C6_ResumeFromFailure ==
    \A r \in Runs :
        AfterFailure(r) =>
            LET k == prev[r].Version
                ms == SelectSeq(trace[r], LAMBDA e : e.op \in MigrationOps)
                all == VersionsIn(Above(migrations[r], prev[r].current))
            IN  /\ \A i \in 1..Len(ms) : ms[i].v >= k
                /\ ms # <<>> => ms[1].v = k
                /\ pc[r] \in {"readFile", "beginTx", "exec", "addVersion", "commit"}
                       /\ ms = <<>> => Cur(r).version = k
                /\ (pc[r] = "done" /\ \A i \in 1..Len(trace[r]) : trace[r][i].ok) =>
                       /\ err[r].kind = "nil"
                       /\ ms # <<>>
                       /\ table = SubSeq(table, 1, prev[r].tableLen) \o all
                       /\ schema = SubSeq(schema, 1, prev[r].schemaLen)
                                       \o BodiesOf(all)

\* C6 witness: the first run committed one migration and failed at the next,
\* the second run committed the rest and returned success
C6_Witness ==
    \E r \in Runs :
        /\ AfterFailure(r)
        /\ Succeeded(r)
        /\ Len(start[r].table) > prev[r].tableLen
        /\ Len(table) > Len(start[r].table)
        /\ table[Len(start[r].table) + 1] = prev[r].Version

\* C7: called with a nil connection or a nil driver constructor, Migrate
\* returns the matching error at once and has attempted no I/O: no driver
\* constructed, the file source neither listed nor read, no database call.
C7_NilArgumentsNoIO ==
    \A r \in Runs :
        (runNo[r] > 0 /\ (args[r].dbNil \/ args[r].driverNil)) =>
            /\ pc[r] = "done"
            /\ err[r] = PlainError(IF args[r].dbNil THEN ErrNoDatabase
                                   ELSE ErrNoDriver)
            /\ trace[r] = <<>>
            /\ ~tx[r].open
            /\ schema = start[r].schema
            /\ table = start[r].table

\* C7 witness: a call with a connection and without a driver constructor
C7_Witness ==
    \E r \in Runs :
        /\ pc[r] = "done"
        /\ ~args[r].dbNil /\ args[r].driverNil
        /\ err[r].Err = <<"no driver provided">>

\* what loadMigrations returns for run r
Resolved(r) == loadMigrations(fs, cfg[r].Directory, driverName)

\* run r has resolved its migrations, and that failed or found none
DiscoveryFailed(r) ==
    /\ Issued(r, {"ReadDir"})
    /\ Resolved(r).err # NoErr \/ Resolved(r).migs = <<>>

\* C8: when resolving the migration set fails (directory unreadable, .sql
\* file name malformed, version and driver duplicated) or yields none,
\* Migrate returns an error without calling CreateVersionTable or
\* GetVersion, beginning a transaction or writing a version record.
C8_DiscoveryFailureBeforeDatabase ==
    \A r \in Runs :
        DiscoveryFailed(r) =>
            /\ pc[r] = "done"
            /\ err[r] = PlainError(
                   IF Resolved(r).err # NoErr
                   THEN Errorf("failed to load migrations", Resolved(r).err)
                   ELSE NewError("no migrations found"))
            /\ ~Issued(r, DatabaseOps \cup {"ReadFile"})
            /\ ~tx[r].open
            /\ schema = start[r].schema
            /\ table = start[r].table

\* C8 witness: the listing holds a version twice for one driver
C8_Witness ==
    \E r \in Runs :
        /\ DiscoveryFailed(r)
        /\ pc[r] = "done"
        /\ Len(err[r].Err) = 2
        /\ err[r].Err[2] = "duplicate migration version and driver"

\* what the failed call itself returned
RawCause(r, op) ==
    IF op = "ReadFile" THEN NewError("fs error") ELSE DbErr(cancelled[r])

\* the message execMigration puts in front of the cause
Wrapping(op) ==
    CASE op = "ReadFile" -> <<"failed to read migration file">>
      [] op = "BeginTx" -> <<"failed to start transaction">>
      [] op = "Exec" -> <<"failed to execute migration">>
      [] op = "AddVersion" -> <<"failed to set version">>
      [] OTHER -> <<>>

\* the resolved migrations of run r that are pending and not yet committed
Uncommitted(r) ==
    SelectSeq(Above(migrations[r], currentVersion[r]),
              LAMBDA m : \A i \in 1..Len(table) : table[i] # m.version)

\* C9: every failure while applying a migration (file unreadable, no
\* transaction, body, version write, commit) comes back from Migrate as a
\* MigrateError with the Name, FileName and Version of the migration that
\* failed, the lowest pending one not yet committed, and its Unwrap yields
\* the cause.
C9_MigrateErrorCarriesMigration ==
    \A r \in Runs :
        (pc[r] = "done" /\ Failed(r)) =>
            LET e == LastEvent(r)
                left == Uncommitted(r)
            IN  /\ left # <<>>
                /\ \A i \in 1..Len(left) : left[1].version <= left[i].version
                /\ err[r].kind = "MigrateError"
                /\ err[r].Name = left[1].name
                /\ err[r].FileName = left[1].filePath
                /\ err[r].Version = left[1].version
                /\ err[r].Version = e.v
                /\ err[r].Err = Wrapping(e.op) \o RawCause(r, e.op)

\* C9 witness: the version write of the second pending migration failed
C9_Witness ==
    \E r \in Runs :
        /\ pc[r] = "done"
        /\ Failed(r)
        /\ LastEvent(r).op = "AddVersion"
        /\ Len(table) > Len(start[r].table)
        /\ err[r].Name # <<>>

(***************************************************************************)
(* More claims about loadMigrations                                        *)
(***************************************************************************)
\* what parseMigrationFileName makes of entry i of the listing
Parsed(i) == parseMigrationFileName(res.dir, fs.entries[i].name)

\* entry i is a file with the migration extension
IsSqlFile(i) ==
    /\ ~fs.entries[i].isDir
    /\ HasSuffix(fs.entries[i].name, migrationFileExt)

\* entry i passes the driver filter: it parses and is universal or tagged
\* with the active driver
Kept(i) ==
    /\ IsSqlFile(i)
    /\ Parsed(i).err = NoErr
    /\ Parsed(i).mig.driver \in {<<>>, driverName}

\* entries i and j are two kept files of one version and one driver tag
DuplicatePair(i, j) ==
    /\ i < j
    /\ Kept(i)
    /\ Kept(j)
    /\ Parsed(i).mig.version = Parsed(j).mig.version
    /\ Parsed(i).mig.driver = Parsed(j).mig.driver

AllParse == \A i \in 1..Len(fs.entries) : IsSqlFile(i) => Parsed(i).err = NoErr

ErrDuplicate == NewError("duplicate migration version and driver")

\* C11: for every listing (all of whose .sql files parse) in which two files
\* kept by the driver filter declare the same version and the same driver
\* tag, loadMigrations fails with the "duplicate migration version and
\* driver" error, whatever other files the listing holds and in whatever
\* order, a driver-specific file between two universal ones included.
C11_DuplicateAlwaysFails ==
    (/\ res.called
     /\ res.dir = fs.dir
     /\ AllParse
     /\ \E i \in 1..Len(fs.entries), j \in 1..Len(fs.entries) :
            DuplicatePair(i, j)) =>
        /\ res.err = ErrDuplicate
        /\ res.migs = <<>>

\* C12: whenever loadMigrations returns without error the returned list is
\* strictly ascending by version (so no version occurs twice) and every
\* element's driver tag is empty or equals the active driver.
C12_ResolvedAscendingAndFiltered ==
    (res.called /\ res.err = NoErr) =>
        /\ StrictlyAscending(VersionsIn(res.migs))
        /\ \A i \in 1..Len(res.migs) :
               res.migs[i].driver \in {<<>>, driverName}

\* C12 witness: the listing has version 10 before version 1 and a file of
\* another driver; the result is versions 1, 10 without that file
C12_Witness ==
    /\ res.called
    /\ res.err = NoErr
    /\ Len(fs.entries) = 3
    /\ fs.entries[1].name = F_10_k
    /\ \E i \in 1..Len(fs.entries) :
           /\ IsSqlFile(i)
           /\ Parsed(i).err = NoErr
           /\ Parsed(i).mig.driver \notin {<<>>, driverName}
    /\ VersionsIn(res.migs) = <<1, 10>>

\* the listing holds one entry, a file whose name lacks the extension
LoneNonSqlFile ==
    /\ Len(fs.entries) = 1
    /\ ~fs.entries[1].isDir
    /\ ~HasSuffix(fs.entries[1].name, migrationFileExt)

ErrExtension == NewError("invalid migration file extension")

\* C15 as stated: resolving a directory whose only file has a name not
\* ending in .sql fails with an "invalid migration file extension" error
\* and returns no migrations.
C15_LoneNonSqlFileFails ==
    (res.called /\ res.dir = fs.dir /\ LoneNonSqlFile) =>
        /\ res.err # NoErr
        /\ res.err[Len(res.err)] = ErrExtension[1]
        /\ res.migs = <<>>

\* C15 amended: resolving a directory whose only file has a name not ending
\* in .sql skips that file and returns no migrations and no error; it is
\* parseMigrationFileName, called on such a name, that fails with "invalid
\* migration file extension".
C15_LoneNonSqlFileSkipped ==
    (res.called /\ res.dir = fs.dir /\ LoneNonSqlFile) =>
        /\ res.err = NoErr
        /\ res.migs = <<>>
        /\ Parsed(1).err = ErrExtension

\* C15 witness: the directory holds 5_b.sqll alone and was resolved
C15_Witness ==
    /\ res.called
    /\ res.dir = fs.dir
    /\ fs.entries = <<File(F_5_b_sqll)>>
    /\ res.err = NoErr
    /\ res.migs = <<>>

(***************************************************************************)
(* parseMigrationFileName on its own, on one file name at a time           *)
(***************************************************************************)
\* the decimal numeral of a non-negative integer
RECURSIVE Itoa(_)
Itoa(v) ==
    IF v < 10 THEN <<Digits[v + 1]>>
    ELSE Itoa(v \div 10) \o <<Digits[(v % 10) + 1]>>

Words == {<<"a">>, <<"b", "c">>}

RECURSIVE JoinWords(_)
JoinWords(ws) ==
    IF Len(ws) = 1 THEN ws[1]
    ELSE ws[1] \o <<" ">> \o JoinWords(Tail(ws))

\* names of one to MaxWords words separated by single spaces
Names == {JoinWords(ws) : ws \in UNION {[1..k -> Words] : k \in 1..MaxWords}}

\* driver tags without a dot, the empty one included
DriverTags == {<<>>, Str_postgres, Str_sqlite, Str_sql}

Underscored(n) == [i \in 1..Len(n) |-> IF n[i] = " " THEN "_" ELSE n[i]]

\* <version>_<name with underscores>[.<driver>].sql
FormatFileName(v, n, d) ==
    Itoa(v) \o <<"_">> \o Underscored(n)
        \o (IF d = <<>> THEN <<>> ELSE <<".">> \o d) \o Ext

WellFormedNames ==
    {FormatFileName(v, n, d) : v \in 0..MaxVersion, n \in Names, d \in DriverTags}

F_1_a_b_pg == <<"1", "_", "a", ".", "b", ".">> \o Str_postgres \o Ext
F__x == <<"_", "x">> \o Ext
F_1_ == <<"1", "_">> \o Ext
F_m1_x == <<"-", "1", "_", "x">> \o Ext
F_p1_x == <<"+", "1", "_", "x">> \o Ext
F_1__a == <<"1", "_", "_", "a">> \o Ext
F_1_a_dot == <<"1", "_", "a", ".">> \o Ext
F_1_pg == <<"1", ".">> \o Str_postgres \o Ext
F_1_a_noext == <<"1", "_", "a">>

\* names outside the format
OtherNames ==
    {F_1_a_b_pg, F__x, F_1_, F_m1_x, F_p1_x, F_1__a, F_1_a_dot, F_1_pg,
     F_1_a_noext, F_x, F_v_x, F_5_b_sqll, Ext}

ParseDirs == {defaultDirectory, Str_db}

InitParse ==
    /\ fs \in {[dir |-> d, entries |-> <<File(n)>>] :
                  d \in ParseDirs, n \in WellFormedNames \cup OtherNames}
    /\ driverName = Str_postgres
    /\ opts = <<>>
    /\ schema = <<>>
    /\ table = <<>>
    /\ tableExists = FALSE
    /\ InitRun

CallParse ==
    /\ ~res.called
    /\ LET p == parseMigrationFileName(fs.dir, fs.entries[1].name)
       IN  res' = [called |-> TRUE, dir |-> fs.dir,
                   migs |-> IF p.err = NoErr THEN <<p.mig>> ELSE <<>>,
                   err |-> p.err]
    /\ UNCHANGED <<fsVars, dbVars, args, pc, cancelled, cfg, migrations,
                   currentVersion, idx, tx, err, trace, start, call, cancelAt,
                   runNo, prev>>

NextParse == CallParse

SpecParse == InitParse /\ [][NextParse]_vars

(***************************************************************************)
(* Claims about parseMigrationFileName                                     *)
(***************************************************************************)
\* the file name parseMigrationFileName was called on
ParsedName == fs.entries[1].name

\* the position of the last dot of s, 0 if it has none
LastDot(s) ==
    IF \E k \in 1..Len(s) : s[k] = "."
    THEN CHOOSE k \in 1..Len(s) :
             s[k] = "." /\ \A j \in (k + 1)..Len(s) : s[j] # "."
    ELSE 0

\* the file name without the extension
StemOf(fileName) == CutSuffix(fileName, migrationFileExt).before

\* the last dot-separated segment of the stem, empty when it has no dot
LastSegment(fileName) ==
    LET stem == StemOf(fileName)
        k == LastDot(stem)
    IN  IF k = 0 THEN <<>> ELSE SubSeq(stem, k + 1, Len(stem))

\* the stem without its last dot-separated segment
BeforeLastSegment(fileName) ==
    LET stem == StemOf(fileName)
        k == LastDot(stem)
    IN  IF k = 0 THEN stem ELSE SubSeq(stem, 1, k - 1)

\* C13: the driver tag parsed from a file name is the last dot-separated
\* segment of the stem before the .sql extension, and is empty when the stem
\* has no dot; for 1_a.b.postgres.sql the driver is postgres alone.
C13_DriverIsLastSegment ==
    (res.called /\ res.err = NoErr) =>
        res.migs[1].driver = LastSegment(ParsedName)

\* the stem splits on its first underscore into two non-empty parts, the
\* first of them a non-negative decimal integer
WellFormedStem(stem) ==
    /\ \E k \in 1..Len(stem) : stem[k] = "_"
    /\ LET k == CHOOSE i \in 1..Len(stem) :
                    stem[i] = "_" /\ \A j \in 1..(i - 1) : stem[j] # "_"
       IN  /\ k > 1
           /\ k < Len(stem)
           /\ \A j \in 1..(k - 1) : IsDigit(stem[j])

\* C14: parseMigrationFileName fails for every .sql file name whose stem
\* does not split on the first underscore into exactly two non-empty parts,
\* or whose version part is not a valid non-negative integer; _x.sql, 1_.sql
\* and -1_x.sql are all rejected.
C14_MalformedStemRejected ==
    (/\ res.called
     /\ HasSuffix(ParsedName, migrationFileExt)
     /\ ~WellFormedStem(BeforeLastSegment(ParsedName))) =>
        res.err # NoErr

SortFuncOutcomes(migs) ==
    {p \in {[i \in 1..Len(migs) |-> migs[f[i]]] :
               f \in Permutations(1..Len(migs))} :
        \A i \in 1..(Len(p) - 1) : p[i].version - p[i + 1].version <= 0}

\* what one call of loadMigrations may return
loadMigrationsOutcomes(f, dir, driver) ==
    LET l == loadMigrations(f, dir, driver)
    IN  IF l.err # NoErr THEN {l}
        ELSE {[migs |-> p, err |-> NoErr] : p \in SortFuncOutcomes(l.migs)}

CallLoadMigrationsTwice ==
    /\ ~res.called
    /\ \E dir \in {defaultDirectory, Str_db} :
           \E a \in loadMigrationsOutcomes(fs, dir, driverName),
              b \in loadMigrationsOutcomes(fs, dir, driverName) :
               res' = [called |-> TRUE, dir |-> dir, migs |-> a.migs,
                       err |-> a.err, second |-> b]
    /\ UNCHANGED <<fsVars, dbVars, args, pc, cancelled, cfg, migrations,
                   currentVersion, idx, tx, err, trace, start, call, cancelAt,
                   runNo, prev>>

NextTwice == CallLoadMigrationsTwice

SpecTwice == InitLoad /\ [][NextTwice]_vars

\* C17: two calls of loadMigrations with the same directory listing and the
\* same active driver return the same outcome, the same error or the same
\* list in the same order, although the sort is free to order migrations of
\* equal version either way.
C17_LoadMigrationsDeterministic ==
    res.called => res.second = [migs |-> res.migs, err |-> res.err]

\* C17 witness: two files of one version were listed, one replaced the other,
\* and both calls returned the same two migrations
C17_Witness ==
    /\ res.called
    /\ res.dir = fs.dir
    /\ \E i \in 1..Len(fs.entries), j \in 1..Len(fs.entries) :
           /\ i < j
           /\ Kept(i)
           /\ Kept(j)
           /\ Parsed(i).mig.version = Parsed(j).mig.version
    /\ res.err = NoErr
    /\ Len(res.migs) = 2
    /\ res.second.migs = res.migs

(***************************************************************************)
(* Claims about transactions and cancellation                              *)
(***************************************************************************)
\* the transactions run r has begun
TxBegun(r) ==
    Len(SelectSeq(trace[r], LAMBDA e : e.op = "BeginTx" /\ e.ok))

\* the transactions run r has ended: tx.Commit was called, or the body or
\* AddVersion failed and the transaction was rolled back
TxEnded(r) ==
    Len(SelectSeq(trace[r],
                  LAMBDA e : \/ e.op = "Commit"
                             \/ e.op \in {"Exec", "AddVersion"} /\ ~e.ok))

InsideTransaction(r) == pc[r] \in {"exec", "addVersion", "commit"}

\* C18: during a Migrate run at most one transaction is open at any time,
\* and every transaction the run begins is committed or rolled back before
\* the next one is begun and before Migrate returns, on every path.
C18_SequentialTransactions ==
    \A r \in Runs :
        /\ TxBegun(r) - TxEnded(r) \in {0, 1}
        /\ InsideTransaction(r) => TxBegun(r) - TxEnded(r) = 1
        /\ ~InsideTransaction(r) =>
               /\ ~tx[r].open
               /\ TxBegun(r) = TxEnded(r)

\* C18 witness: the run has returned after two transactions, the first
\* committed, the second rolled back when its body failed half way
C18_Witness ==
    \E r \in Runs :
        /\ pc[r] = "done"
        /\ TxBegun(r) = 2
        /\ TxEnded(r) = 2
        /\ Len(Events(r, "Commit")) = 1
        /\ LastEvent(r).op = "Exec"
        /\ ~LastEvent(r).ok
        /\ ~cancelled[r]
        /\ ~tx[r].open

\* C19: if the context is cancelled while a migration's transaction is open,
\* that transaction does not commit (no statement and no version record of
\* that migration becomes durable), Migrate returns an error, and no later
\* migration is begun in that run.
C19_CancelledTransactionNeverCommits ==
    \A r \in Runs :
        cancelAt[r].hit =>
            LET v == cancelAt[r].version
                earlier == PendingBelow(r, v)
            IN  /\ \A i \in 1..Len(trace[r]) :
                       /\ trace[r][i].op = "Commit" /\ trace[r][i].v = v
                              => ~trace[r][i].ok
                       /\ trace[r][i].op \in MigrationOps
                              => trace[r][i].v <= v
                /\ schema = start[r].schema \o BodiesOf(earlier)
                /\ table = start[r].table \o earlier
                /\ IF pc[r] = "done"
                   THEN /\ err[r].kind = "MigrateError"
                        /\ err[r].Version = v
                   ELSE InsideTransaction(r) /\ Cur(r).version = v

\* C19 witness: the context was cancelled inside the second migration's
\* transaction, after AddVersion; the run has returned with a third migration
\* still pending
C19_Witness ==
    \E r \in Runs :
        /\ cancelAt[r].hit
        /\ pc[r] = "done"
        /\ err[r].kind = "MigrateError"
        /\ Len(Events(r, "Commit")) = 2
        /\ Events(r, "Commit")[1].ok
        /\ Len(Events(r, "AddVersion")) = 2
        /\ Events(r, "AddVersion")[2].ok
        /\ \E i \in 1..Len(migrations[r]) :
               migrations[r][i].version > cancelAt[r].version
        /\ Len(table) = Len(start[r].table) + 1

(***************************************************************************)
(* The configuration Migrate builds, on every option list up to MaxOpts    *)
(***************************************************************************)
OptionPool ==
    {WithDirectory(Str_db), WithDirectory(Str_sql), WithTableName(Str_ver),
     WithTableName(Str_db), WithLogger("custom"), WithLogger("discard")}

OptionLists == UNION {[1..k -> OptionPool] : k \in 0..MaxOpts}

InitConfig ==
    /\ fs = [dir |-> defaultDirectory, entries |-> <<>>]
    /\ driverName = Str_postgres
    /\ opts \in OptionLists
    /\ schema = <<>>
    /\ table = <<>>
    /\ tableExists = FALSE
    /\ InitRun

\* cfg := defaultConfig(); cfg.apply(opts...)
CallApply ==
    /\ ~res.called
    /\ cfg' = [r \in Runs |-> ApplyOptions(defaultConfig, opts)]
    /\ res' = [NoCall EXCEPT !.called = TRUE]
    /\ UNCHANGED <<fsVars, dbVars, args, pc, cancelled, migrations,
                   currentVersion, idx, tx, err, trace, start, call, cancelAt,
                   runNo, prev>>

NextConfig == CallApply

SpecConfig == InitConfig /\ [][NextConfig]_vars

\* the options of the list that set this field
Setting(os, field) == SelectSeq(os, LAMBDA o : o.field = field)

\* the last of them
LastSetting(os, field) == Setting(os, field)[Len(Setting(os, field))]

\* C20: the effective configuration equals the defaults (directory
\* "migrations", table "gomigrate", the default logger) with the supplied
\* options applied in order: for each field the last option that sets it
\* wins, and a field no option sets keeps its default.
C20_ConfigOverlay ==
    \A r \in Runs :
        res.called =>
            /\ cfg[r].Directory =
                   IF Setting(opts, "Directory") = <<>>
                   THEN <<"m", "i", "g", "r", "a", "t", "i", "o", "n", "s">>
                   ELSE LastSetting(opts, "Directory").value
            /\ cfg[r].TableName =
                   IF Setting(opts, "TableName") = <<>>
                   THEN <<"g", "o", "m", "i", "g", "r", "a", "t", "e">>
                   ELSE LastSetting(opts, "TableName").value
            /\ cfg[r].Logger =
                   IF Setting(opts, "Logger") = <<>>
                   THEN "slog.Default"
                   ELSE LastSetting(opts, "Logger").logger

\* C20 witness: the directory was set twice with a table name in between;
\* the second directory won and the logger kept its default
C20_Witness ==
    \E r \in Runs :
        /\ res.called
        /\ opts = <<WithDirectory(Str_db), WithTableName(Str_ver),
                    WithDirectory(Str_sql)>>
        /\ cfg[r].Directory = Str_sql
        /\ cfg[r].TableName = Str_ver
        /\ cfg[r].Logger = "slog.Default"

(***************************************************************************)
(* Claims about the stored version                                         *)
(***************************************************************************)
\* C21: whenever Migrate returns success, the stored version GetVersion
\* reports immediately afterwards equals the version of the last (highest)
\* migration of the resolved set.
C21_SuccessReachesLastVersion ==
    \A r \in Runs :
        Succeeded(r) =>
            GetVersion(table) = migrations[r][Len(migrations[r])].version

\* C21 witness: stored version 2, resolved versions 1, 2, 3; only version 3
\* was executed, the run returned success and the stored version is 3
C21_Witness ==
    \E r \in Runs :
        /\ Succeeded(r)
        /\ start[r].table = <<1, 2>>
        /\ VersionsIn(migrations[r]) = <<1, 2, 3>>
        /\ VersionsOf(Events(r, "Commit")) = <<3>>
        /\ GetVersion(table) = 3

\* C22: starting from an empty tracking table, a Migrate run that returns
\* success has executed every migration of the resolved set exactly once and
\* recorded its version, for every resolved set the file name parser accepts,
\* a migration of version 0 included.
C22_FreshRunExecutesAll ==
    \A r \in Runs :
        (Succeeded(r) /\ start[r].table = <<>>) =>
            /\ VersionsOf(Events(r, "Exec")) = VersionsIn(migrations[r])
            /\ VersionsOf(Events(r, "Commit")) = VersionsIn(migrations[r])
            /\ table = VersionsIn(migrations[r])

(***************************************************************************)
(* Migrate runs against a database that starts empty                       *)
(***************************************************************************)
InitFresh ==
    /\ fs \in {[dir |-> defaultDirectory, entries |-> l] : l \in Listings(RunPool)}
    /\ driverName = Str_postgres
    /\ opts \in RunOpts
    /\ schema = <<>>
    /\ table = <<>>
    /\ tableExists = FALSE
    /\ InitRun

SpecFresh == InitFresh /\ [][Next]_vars

\* the versions of the resolved set of the file source, in sorted order
ResolvedVersions ==
    LET l == loadMigrations(fs, fs.dir, driverName)
    IN  IF l.err # NoErr THEN <<>> ELSE VersionsIn(l.migs)

IsPrefix(s, t) == Len(s) <= Len(t) /\ s = SubSeq(t, 1, Len(s))

\* C23: for a fixed resolved set whose versions are all at least 1 and an
\* initially empty tracking table, in every state reachable by any sequence
\* of Migrate runs (successful, failing or cancelled) the recorded versions
\* are a prefix of the version-sorted resolved set: with a version every
\* smaller resolved version is recorded, and none is recorded twice.
C23_RecordedVersionsArePrefix ==
    (\A i \in 1..Len(ResolvedVersions) : ResolvedVersions[i] >= 1) =>
        /\ IsPrefix(table, ResolvedVersions)
        /\ \A i \in 1..Len(table), j \in 1..Len(table) :
               table[i] = table[j] => i = j

\* C23 witness: a first run failed, a second run is under way, and versions
\* 1 and 2 of the resolved versions 1, 2, 3 are recorded
C23_Witness ==
    \E r \in Runs :
        /\ runNo[r] = 2
        /\ prev[r].kind = "MigrateError"
        /\ ResolvedVersions = <<1, 2, 3>>
        /\ table = <<1, 2>>
        /\ Len(Events(r, "Commit")) >= 1

(***************************************************************************)
(* Two Migrate runs interleaved against one database whose tracking table  *)
(* has a PRIMARY KEY on version                                            *)
(***************************************************************************)
ConcRuns == {1, 2}

ConcPool == {File(F_1_a), File(F_2_b)}

InitConc ==
    /\ fs \in {[dir |-> defaultDirectory, entries |-> l] : l \in Listings(ConcPool)}
    /\ driverName = Str_postgres
    /\ opts = <<>>
    /\ schema = <<>>
    /\ table = <<>>
    /\ tableExists = FALSE
    /\ args = [r \in ConcRuns |-> NoArgs]
    /\ pc = [r \in ConcRuns |-> "idle"]
    /\ cancelled = [r \in ConcRuns |-> FALSE]
    /\ cfg = [r \in ConcRuns |-> defaultConfig]
    /\ migrations = [r \in ConcRuns |-> <<>>]
    /\ currentVersion = [r \in ConcRuns |-> 0]
    /\ idx = [r \in ConcRuns |-> 0]
    /\ tx = [r \in ConcRuns |-> NoTx]
    /\ err = [r \in ConcRuns |-> NilResult]
    /\ trace = [r \in ConcRuns |-> <<>>]
    /\ start = [r \in ConcRuns |-> Snapshot]
    /\ call = [r \in ConcRuns |-> Snapshot]
    /\ cancelAt = [r \in ConcRuns |-> NoCancel]
    /\ runNo = [r \in ConcRuns |-> 0]
    /\ prev = [r \in ConcRuns |-> NoResult]
    /\ res = NoCall

\* the version records the open transactions of the other runs hold
InflightOthers(r) ==
    UNION {{tx[o].vers[i] : i \in 1..Len(tx[o].vers)} :
              o \in {q \in ConcRuns \ {r} : tx[q].open}}

\* a tracking table without the key: every insert is accepted
InsertAcceptedNoKey(version, committed, inflight) == TRUE

\* version INT PRIMARY KEY: an insert is accepted only when neither a
\* committed record nor a record of another open transaction has the version
InsertAccepted(version, committed, inflight) ==
    /\ \A i \in 1..Len(committed) : committed[i] # version
    /\ version \notin inflight

\* each run is one call of Migrate
ConcInvoke(r) == pc[r] = "idle" /\ Invoke(r)

\* driver.AddVersion against the keyed table: it succeeds only when the
\* insert is accepted; while another open transaction holds the version it
\* waits (or fails)
ConcAddVersionStep(r) ==
    /\ AddVersionStep(r)
    /\ pc'[r] = "commit" =>
           InsertAccepted(Cur(r).version, table, InflightOthers(r))

NextConc ==
    \E r \in ConcRuns :
        \/ ConcInvoke(r)
        \/ LoadStep(r)
        \/ CreateTableStep(r)
        \/ GetVersionStep(r)
        \/ ReadFileStep(r)
        \/ BeginTxStep(r)
        \/ ExecStep(r)
        \/ ConcAddVersionStep(r)
        \/ CommitStep(r)
        \/ Cancel(r)

SpecConc == InitConc /\ [][NextConc]_vars

\* run r committed the transaction of version v
Committed(r, v) ==
    \E i \in 1..Len(trace[r]) : trace[r][i] = Event("Commit", v, TRUE)

\* run r called execMigration for version v
Attempted(r, v) ==
    \E i \in 1..Len(trace[r]) :
        trace[r][i].op \in MigrationOps /\ trace[r][i].v = v

NoDuplicates(seq) ==
    \A i \in 1..Len(seq), j \in 1..Len(seq) : seq[i] = seq[j] => i = j

\* C24: when two Migrate runs with the same resolved set interleave against
\* one database whose tracking table rejects a duplicate version and whose
\* transactions are atomic, each migration's transaction commits in at most
\* one of the two runs, so no version is recorded twice and no migration
\* body becomes durable twice; a run that loses the race on a migration
\* returns a MigrateError for it.
C24_ConcurrentRunsCommitOnce ==
    /\ NoDuplicates(table)
    /\ NoDuplicates(VersionsIn(schema))
    /\ \A r \in ConcRuns, o \in ConcRuns, v \in 1..2 :
           (r # o /\ Committed(o, v)) =>
               /\ ~Committed(r, v)
               /\ Attempted(r, v) =>
                      IF pc[r] = "done"
                      THEN /\ err[r].kind = "MigrateError"
                           /\ err[r].Version = v
                      ELSE Cur(r).version = v

\* C24 witness: both runs executed the body of version 1 inside their own
\* transaction; one committed, the other's AddVersion was rejected and it
\* returned a MigrateError for version 1
C24_Witness ==
    \E r \in ConcRuns, o \in ConcRuns :
        /\ r # o
        /\ Committed(o, 1)
        /\ \E i \in 1..Len(trace[r]) : trace[r][i] = Event("Exec", 1, TRUE)
        /\ LastEvent(r) = Event("AddVersion", 1, FALSE)
        /\ ~cancelled[r]
        /\ pc[r] = "done"
        /\ err[r].kind = "MigrateError"
        /\ err[r].Version = 1
        /\ table = <<1>>

====
